---- MODULE Spec2Model ----
(***************************************************************************)
(* Model of run-test.py: a Gradio chat front end for an OpenAI-compatible  *)
(* chat-completions server.  The state is the UI cells the event handlers  *)
(* read and write (chatbot, msg_box, status_text) plus a record of the     *)
(* last handler invocation (its inputs, the HTTP exchange, its result).    *)
(*                                                                         *)
(* Strings are sequences of atoms: an atom is one character of user or     *)
(* server supplied text, or one literal fragment of a format string.       *)
(* Concatenation is \o, a substring is a contiguous subsequence.           *)
(***************************************************************************)
EXTENDS Integers, Sequences, FiniteSets, TLC

\* Longest conversation explored (sends are disabled beyond it).
MaxTurns == 3

(***************************************************************************)
(* Strings                                                                 *)
(***************************************************************************)
Whitespace == {" ", "\t", "\n"}

RECURSIVE LStrip(_)
LStrip(s) ==
    IF s = <<>> THEN <<>>
    ELSE IF Head(s) \in Whitespace THEN LStrip(Tail(s)) ELSE s

RECURSIVE RStrip(_)
RStrip(s) ==
    IF s = <<>> THEN <<>>
    ELSE IF s[Len(s)] \in Whitespace THEN RStrip(SubSeq(s, 1, Len(s) - 1)) ELSE s

\* str.strip()
Strip(s) == RStrip(LStrip(s))

\* truth value of a str: non-empty
Truthy(s) == Len(s) > 0

Digit(d) ==
    CASE d = 0 -> "0" [] d = 1 -> "1" [] d = 2 -> "2" [] d = 3 -> "3"
      [] d = 4 -> "4" [] d = 5 -> "5" [] d = 6 -> "6" [] d = 7 -> "7"
      [] d = 8 -> "8" [] d = 9 -> "9"

\* The decimal rendering of a non-negative integer by an f-string.
RECURSIVE IntToStr(_)
IntToStr(n) ==
    IF n < 10 THEN <<Digit(n)>> ELSE IntToStr(n \div 10) \o <<Digit(n % 10)>>

\* sub occurs in s as a contiguous run
Contains(s, sub) ==
    \E i \in 0 .. (Len(s) - Len(sub)) : SubSeq(s, i + 1, i + Len(sub)) = sub

(***************************************************************************)
(* Python values that reach the handlers                                   *)
(***************************************************************************)
PyStr(s) == [type |-> "str", val |-> s]
PyNone == [type |-> "NoneType", val |-> <<>>]

Hi == <<"h", "i">>
Hello == <<"h", "e", "l", "l", "o">>
Bye == <<"b", "y", "e">>

\* What the user may have typed into msg_box.
Messages == {<<>>, <<" ", "\n">>, Hi, <<" ">> \o Bye \o <<"\n">>}

\* What the system prompt cell may deliver.
SystemPrompts == {PyStr(<<>>), PyStr(<<" ">>), PyStr(<<"s", " ">>), PyNone}

\* Slider values: temperature in tenths, max_tokens.
Temperatures == {7}
MaxTokensValues == {512}

(***************************************************************************)
(* Configuration                                                           *)
(***************************************************************************)
MODEL_URL == <<"http://localhost:8000/v1/chat/completions">>
MODEL_NAME == <<"openai/gpt-oss-20b">>

(***************************************************************************)
(* Exceptions                                                              *)
(***************************************************************************)
NoExc == [cls |-> "none", desc |-> <<>>]
Exc(c, d) == [cls |-> c, desc |-> d]

\* The classes an exception class derives from (itself included), as
\* named by the except clauses: requests' ConnectTimeout derives from both
\* ConnectionError and Timeout, ReadTimeout from Timeout only.
Ancestors(cls) ==
    CASE cls = "ConnectionError"  -> {"ConnectionError", "Exception"}
      [] cls = "ConnectTimeout"   -> {"ConnectTimeout", "ConnectionError", "Timeout", "Exception"}
      [] cls = "ReadTimeout"      -> {"ReadTimeout", "Timeout", "Exception"}
      [] cls = "TooManyRedirects" -> {"TooManyRedirects", "Exception"}
      [] cls = "JSONDecodeError"  -> {"JSONDecodeError", "Exception"}
      [] cls = "KeyError"         -> {"KeyError", "Exception"}
      [] cls = "IndexError"       -> {"IndexError", "Exception"}
      [] cls = "AttributeError"   -> {"AttributeError", "Exception"}
      [] OTHER                    -> {cls}

IsInstance(e, c) == c \in Ancestors(e.cls)

(***************************************************************************)
(* The HTTP exchange.  A response carries a status code and a body; the    *)
(* body has its raw text and what response.json() makes of it.  A fault is *)
(* the exception requests raises instead of returning a response.          *)
(***************************************************************************)
Choice(c) == [message |-> [content |-> c]]

BodyHello ==
    [text |-> <<"{\"choices\":[{\"message\":{\"content\":\"hello\"}}]}">>,
     valid |-> TRUE, json |-> [choices |-> <<Choice(Hello)>>]]
BodyTwoChoices ==
    [text |-> <<"{\"choices\":[{\"message\":{\"content\":\"bye\"}},{\"message\":{\"content\":\"hello\"}}]}">>,
     valid |-> TRUE, json |-> [choices |-> <<Choice(Bye), Choice(Hello)>>]]
BodyNoChoices ==
    [text |-> <<"{\"detail\":\"x\"}">>,
     valid |-> TRUE, json |-> [detail |-> <<"x">>]]
BodyEmptyChoices ==
    [text |-> <<"{\"choices\":[]}">>,
     valid |-> TRUE, json |-> [choices |-> <<>>]]
BodyNoContent ==
    [text |-> <<"{\"choices\":[{\"message\":{\"role\":\"assistant\"}}]}">>,
     valid |-> TRUE, json |-> [choices |-> <<[message |-> [role |-> <<"assistant">>]]>>]]
BodyServerError ==
    [text |-> <<"s", "e", "r", "v", "e", "r", " ", "e", "r", "r", "o", "r">>,
     valid |-> FALSE, json |-> [detail |-> <<>>]]

Bodies == {BodyHello, BodyTwoChoices, BodyNoChoices, BodyEmptyChoices,
           BodyNoContent, BodyServerError}

StatusCodes == {200, 404, 500}

Response(code, body) == [kind |-> "response", status_code |-> code, body |-> body, exc |-> NoExc]
Fault(e) == [kind |-> "fault", status_code |-> 0, body |-> BodyServerError, exc |-> e]

\* The exceptions requests.post / requests.get may raise.
TransportFaults ==
    {Exc("ConnectionError", <<"Connection refused">>),
     Exc("ConnectTimeout", <<"Connection to localhost timed out">>),
     Exc("ReadTimeout", <<"Read timed out">>),
     Exc("TooManyRedirects", <<"Exceeded 30 redirects">>)}

Outcomes ==
    {Response(c, b) : c \in StatusCodes, b \in Bodies} \cup {Fault(e) : e \in TransportFaults}

\* response.json()
Json(body) ==
    IF body.valid THEN [exc |-> NoExc, val |-> body.json]
    ELSE [exc |-> Exc("JSONDecodeError", <<"Expecting value: line 1 column 1 (char 0)">>),
          val |-> body.json]

\* A plausible slip: the last choice taken instead of the first.
FirstChoiceContent_Last(result) ==
    IF "choices" \notin DOMAIN result
    THEN [exc |-> Exc("KeyError", <<"'choices'">>), val |-> <<>>]
    ELSE IF Len(result.choices) = 0
    THEN [exc |-> Exc("IndexError", <<"list index out of range">>), val |-> <<>>]
    ELSE IF "message" \notin DOMAIN result.choices[Len(result.choices)]
    THEN [exc |-> Exc("KeyError", <<"'message'">>), val |-> <<>>]
    ELSE IF "content" \notin DOMAIN result.choices[Len(result.choices)].message
    THEN [exc |-> Exc("KeyError", <<"'content'">>), val |-> <<>>]
    ELSE [exc |-> NoExc, val |-> result.choices[Len(result.choices)].message.content]

\* result["choices"][0]["message"]["content"]
FirstChoiceContent(result) ==
    IF "choices" \notin DOMAIN result
    THEN [exc |-> Exc("KeyError", <<"'choices'">>), val |-> <<>>]
    ELSE IF Len(result.choices) = 0
    THEN [exc |-> Exc("IndexError", <<"list index out of range">>), val |-> <<>>]
    ELSE IF "message" \notin DOMAIN result.choices[1]
    THEN [exc |-> Exc("KeyError", <<"'message'">>), val |-> <<>>]
    ELSE IF "content" \notin DOMAIN result.choices[1].message
    THEN [exc |-> Exc("KeyError", <<"'content'">>), val |-> <<>>]
    ELSE [exc |-> NoExc, val |-> result.choices[1].message.content]

(***************************************************************************)
(* chat_with_model                                                         *)
(***************************************************************************)
Msg(role, content) == [role |-> role, content |-> content]

\* The texts of the error turns.  The emoji that open them are written as
\* :x:, :warning: and :white_check_mark:.
\* A plausible slip: the response body left out of the error text.
HttpErrorText_NoBody(status_code, text) ==
    <<":x: **Error**: ">> \o <<"Error ">> \o IntToStr(status_code)

HttpErrorText(status_code, text) ==
    <<":x: **Error**: ">> \o <<"Error ">> \o IntToStr(status_code) \o <<": ">> \o text
ConnectionErrorText ==
    <<":x: **Connection Error**: Could not connect to the model server. Make sure it's running on http://localhost:8000">>
TimeoutErrorText ==
    <<":x: **Timeout Error**: The model took too long to respond">>
UnexpectedErrorText(e) == <<":x: **Unexpected Error**: ">> \o e.desc

\* A plausible slip: the prompt tested without strip().
SystemMessages_NoStrip(system_prompt) ==
    IF Truthy(system_prompt) THEN <<Msg("system", system_prompt)>> ELSE <<>>

\* if system_prompt.strip(): messages.append(system message)
SystemMessages(system_prompt) ==
    IF Truthy(Strip(system_prompt)) THEN <<Msg("system", system_prompt)>> ELSE <<>>

\* A plausible slip: turns whose assistant text is an error text left out
\* of the request.
RECURSIVE HistoryMessages_SkipErrors(_)
HistoryMessages_SkipErrors(history) ==
    IF history = <<>> THEN <<>>
    ELSE (IF Head(history)[2] # <<>>
             /\ Head(history)[2][1] \in {":x: **Error**: ", ConnectionErrorText[1],
                                         TimeoutErrorText[1], ":x: **Unexpected Error**: "}
          THEN <<>>
          ELSE <<Msg("user", Head(history)[1]), Msg("assistant", Head(history)[2])>>)
         \o HistoryMessages_SkipErrors(Tail(history))

\* for user_msg, assistant_msg in history: append user, append assistant
RECURSIVE HistoryMessages(_)
HistoryMessages(history) ==
    IF history = <<>> THEN <<>>
    ELSE <<Msg("user", Head(history)[1]), Msg("assistant", Head(history)[2])>>
         \o HistoryMessages(Tail(history))

BuildMessages(message, history, system_prompt) ==
    SystemMessages(system_prompt) \o HistoryMessages(history) \o <<Msg("user", message)>>

POST_TIMEOUT == 60

Payload(messages, temperature, max_tokens) ==
    [model |-> MODEL_NAME, messages |-> messages, temperature |-> temperature,
     max_tokens |-> max_tokens, stream |-> FALSE]

PostRequest(payload) ==
    [url |-> MODEL_URL, content_type |-> "application/json", json |-> payload,
     timeout |-> POST_TIMEOUT]

NoRequest == PostRequest(Payload(<<>>, 0, 0))

\* A plausible slip: history.extend(items), which changes the caller's list.
ListAdd_InPlace(history, items) == [new |-> history \o items, left |-> history \o items]

\* history + [turn]: a new list; the left operand keeps its contents.
ListAdd(history, items) == [new |-> history \o items, left |-> history]

\* A plausible slip: the trimmed message stored in the turn.
Turn_Stripped(user, assistant) == <<Strip(user), assistant>>

Turn(user, assistant) == <<user, assistant>>

\* What a return statement or an escaping exception leaves behind.
Return(display, add, sent, request) ==
    [raised |-> FALSE, exc |-> NoExc, display |-> display, history |-> add.new,
     held |-> add.left, sent |-> sent, request |-> request]
Raise(e, history, sent, request) ==
    [raised |-> TRUE, exc |-> e, display |-> <<>>, history |-> history,
     held |-> history, sent |-> sent, request |-> request]

\* The try block, lines 20-63.
TryBlock(message, history, system_prompt, temperature, max_tokens, outcome) ==
    IF system_prompt.type # "str"
    THEN Raise(Exc("AttributeError", <<"'NoneType' object has no attribute 'strip'">>),
               history, FALSE, NoRequest)
    ELSE
    LET messages == BuildMessages(message, history, system_prompt.val)
        request == PostRequest(Payload(messages, temperature, max_tokens))
    IN  IF outcome.kind = "fault"
        THEN Raise(outcome.exc, history, TRUE, request)
        ELSE IF outcome.status_code = 200
        THEN LET result == Json(outcome.body)
             IN  IF result.exc # NoExc
                 THEN Raise(result.exc, history, TRUE, request)
                 ELSE LET assistant_response == FirstChoiceContent(result.val)
                      IN  IF assistant_response.exc # NoExc
                          THEN Raise(assistant_response.exc, history, TRUE, request)
                          ELSE Return(<<>>,
                                      ListAdd(history, <<Turn(message, assistant_response.val)>>),
                                      TRUE, request)
        ELSE Return(<<>>,
                    ListAdd(history, <<Turn(message,
                                HttpErrorText(outcome.status_code, outcome.body.text))>>),
                    TRUE, request)

\* A plausible slip: no catch-all clause.
ExceptClauses_NoCatchAll(r, message, history) ==
    IF ~r.raised THEN r
    ELSE IF IsInstance(r.exc, "ConnectionError")
    THEN Return(<<>>, ListAdd(history, <<Turn(message, ConnectionErrorText)>>), r.sent, r.request)
    ELSE IF IsInstance(r.exc, "Timeout")
    THEN Return(<<>>, ListAdd(history, <<Turn(message, TimeoutErrorText)>>), r.sent, r.request)
    ELSE r

\* A plausible slip: the Timeout clause written before the ConnectionError
\* clause.
ExceptClauses_TimeoutFirst(r, message, history) ==
    IF ~r.raised THEN r
    ELSE IF IsInstance(r.exc, "Timeout")
    THEN Return(<<>>, ListAdd(history, <<Turn(message, TimeoutErrorText)>>), r.sent, r.request)
    ELSE IF IsInstance(r.exc, "ConnectionError")
    THEN Return(<<>>, ListAdd(history, <<Turn(message, ConnectionErrorText)>>), r.sent, r.request)
    ELSE IF IsInstance(r.exc, "Exception")
    THEN Return(<<>>, ListAdd(history, <<Turn(message, UnexpectedErrorText(r.exc))>>),
                r.sent, r.request)
    ELSE r

\* The except clauses, lines 65-76, tried in order.
ExceptClauses(r, message, history) ==
    IF ~r.raised THEN r
    ELSE IF IsInstance(r.exc, "ConnectionError")
    THEN Return(<<>>, ListAdd(history, <<Turn(message, ConnectionErrorText)>>), r.sent, r.request)
    ELSE IF IsInstance(r.exc, "Timeout")
    THEN Return(<<>>, ListAdd(history, <<Turn(message, TimeoutErrorText)>>), r.sent, r.request)
    ELSE IF IsInstance(r.exc, "Exception")
    THEN Return(<<>>, ListAdd(history, <<Turn(message, UnexpectedErrorText(r.exc))>>),
                r.sent, r.request)
    ELSE r

chat_with_model(message, history, system_prompt, temperature, max_tokens, outcome) ==
    ExceptClauses(TryBlock(message, history, system_prompt, temperature, max_tokens, outcome),
                  message, history)

\* clear_chat
clear_chat == <<>>

(***************************************************************************)
(* check_server_status                                                     *)
(***************************************************************************)
STATUS_TIMEOUT == 5

StatusRequest == [url |-> <<"http://localhost:8000/v1/models">>, timeout |-> STATUS_TIMEOUT]

OnlineText == <<":white_check_mark: **Server Status**: Online and ready">>
DegradedText(status_code) ==
    <<":warning: **Server Status**: Server responded with status ">> \o IntToStr(status_code)
OfflineText ==
    <<":x: **Server Status**: Offline - Make sure to start your model server first">>
UnknownText(e) == <<":warning: **Server Status**: Unknown error - ">> \o e.desc

StatusReturn(text) == [raised |-> FALSE, text |-> text]

\* A plausible slip: the status code of the response not looked at.
check_server_status_AnyResponse(outcome) ==
    IF outcome.kind = "response"
    THEN StatusReturn(OnlineText)
    ELSE IF IsInstance(outcome.exc, "ConnectionError")
    THEN StatusReturn(OfflineText)
    ELSE IF IsInstance(outcome.exc, "Exception")
    THEN StatusReturn(UnknownText(outcome.exc))
    ELSE [raised |-> TRUE, text |-> <<>>]

check_server_status(outcome) ==
    IF outcome.kind = "response"
    THEN IF outcome.status_code = 200
         THEN StatusReturn(OnlineText)
         ELSE StatusReturn(DegradedText(outcome.status_code))
    ELSE IF IsInstance(outcome.exc, "ConnectionError")
    THEN StatusReturn(OfflineText)
    ELSE IF IsInstance(outcome.exc, "Exception")
    THEN StatusReturn(UnknownText(outcome.exc))
    ELSE [raised |-> TRUE, text |-> <<>>]

\* The outcomes of the GET explored; its body is not read.
StatusOutcomes ==
    {Response(200, BodyHello), Response(500, BodyServerError),
     Fault(Exc("ConnectionError", <<"Connection refused">>)),
     Fault(Exc("ConnectTimeout", <<"Connection to localhost timed out">>)),
     Fault(Exc("ReadTimeout", <<"Read timed out">>))}

(***************************************************************************)
(* submit_message, the handler of send_btn.click and msg_box.submit        *)
(***************************************************************************)
\* A plausible slip: the message tested without strip().
submit_message_NoStrip(message, history, sys_prompt, temp, max_tok, outcome) ==
    IF ~Truthy(message)
    THEN [called |-> FALSE] @@ Return(<<>>, [new |-> history, left |-> history], FALSE, NoRequest)
    ELSE [called |-> TRUE] @@ chat_with_model(message, history, sys_prompt, temp, max_tok, outcome)

submit_message(message, history, sys_prompt, temp, max_tok, outcome) ==
    IF ~Truthy(Strip(message))
    THEN [called |-> FALSE] @@ Return(<<>>, [new |-> history, left |-> history], FALSE, NoRequest)
    ELSE [called |-> TRUE] @@ chat_with_model(message, history, sys_prompt, temp, max_tok, outcome)

(***************************************************************************)
(* State: the UI cells, and the last handler invocation.                   *)
(***************************************************************************)
VARIABLES
    chatbot,      \* the conversation shown, a sequence of turns
    msg_box,      \* the text in the input box
    status_text,  \* the status line
    last          \* the last handler invocation: inputs, exchange, result

vars == <<chatbot, msg_box, status_text, last>>

NoOutcome == Fault(NoExc)

NoInputs ==
    [message |-> <<>>, history |-> <<>>, system_prompt |-> PyStr(<<>>),
     temperature |-> 0, max_tokens |-> 0, outcome |-> NoOutcome]

NoResult == [called |-> FALSE] @@ Return(<<>>, [new |-> <<>>, left |-> <<>>], FALSE, NoRequest)

\* What the cells of the page deliver to the send handlers: the system
\* prompt Textbox always delivers a str.
UiSystemPrompts == {PyStr(<<>>), PyStr(<<"s", " ">>)}

\* The server outcomes explored over whole sessions.
UiOutcomes ==
    {Response(200, BodyHello), Response(500, BodyServerError),
     Fault(Exc("ConnectionError", <<"Connection refused">>))}

\* status_text = gr.Markdown(value=check_server_status()); the other cells
\* start empty.
Init ==
    /\ chatbot = <<>>
    /\ msg_box = <<>>
    /\ \E outcome \in StatusOutcomes :
          /\ status_text = check_server_status(outcome).text
          /\ last = [op |-> "init", in |-> [NoInputs EXCEPT !.outcome = outcome], out |-> NoResult]

\* The event dispatch of one send: read the input cells, run the handler,
\* write its two results back to msg_box and chatbot (nothing is written
\* when the handler raises).  The outcome is recorded when a POST was made.
Dispatch(op, message, sys_prompt, temp, max_tok, outcome) ==
    LET r == submit_message(message, chatbot, sys_prompt, temp, max_tok, outcome)
    IN  /\ Len(chatbot) < MaxTurns
        /\ last' = [op |-> op,
                    in |-> [message |-> message, history |-> chatbot,
                            system_prompt |-> sys_prompt, temperature |-> temp,
                            max_tokens |-> max_tok,
                            outcome |-> IF r.sent THEN outcome ELSE NoOutcome],
                    out |-> r]
        /\ IF r.raised
           THEN UNCHANGED <<chatbot, msg_box>>
           ELSE /\ msg_box' = r.display
                /\ chatbot' = r.history
        /\ UNCHANGED status_text

\* send_btn.click
SendClick ==
    \E message \in Messages, sys_prompt \in UiSystemPrompts, temp \in Temperatures,
       max_tok \in MaxTokensValues, outcome \in UiOutcomes :
        Dispatch("send_btn.click", message, sys_prompt, temp, max_tok, outcome)

\* msg_box.submit (the Enter key)
MsgSubmit ==
    \E message \in Messages, sys_prompt \in UiSystemPrompts, temp \in Temperatures,
       max_tok \in MaxTokensValues, outcome \in UiOutcomes :
        Dispatch("msg_box.submit", message, sys_prompt, temp, max_tok, outcome)

\* clear_btn.click
ClearClick ==
    /\ chatbot' = clear_chat
    /\ last' = [op |-> "clear_btn.click", in |-> [NoInputs EXCEPT !.history = chatbot],
                out |-> [NoResult EXCEPT !.history = clear_chat, !.held = chatbot]]
    /\ UNCHANGED <<msg_box, status_text>>

\* refresh_btn.click
RefreshClick ==
    \E outcome \in StatusOutcomes :
        LET r == check_server_status(outcome)
        IN  /\ last' = [op |-> "refresh_btn.click",
                        in |-> [NoInputs EXCEPT !.outcome = outcome],
                        out |-> [NoResult EXCEPT !.raised = r.raised]]
            /\ IF r.raised THEN UNCHANGED status_text ELSE status_text' = r.text
            /\ UNCHANGED <<chatbot, msg_box>>

Next == SendClick \/ MsgSubmit \/ ClearClick \/ RefreshClick

Spec == Init /\ [][Next]_vars

(***************************************************************************)
(* chat_with_model as a function: the arguments are drawn from bounded     *)
(* sets, one step applies it.                                              *)
(***************************************************************************)
\* Longest history passed to a direct call.
MaxHistory == 2

SampleTurns == {Turn(Hi, Hello), Turn(<<" ">> \o Bye \o <<"\n">>, ConnectionErrorText)}

Histories == UNION {[1 .. n -> SampleTurns] : n \in 0 .. MaxHistory}

CallInit ==
    \E message \in Messages, history \in Histories, system_prompt \in SystemPrompts,
       temperature \in Temperatures, max_tokens \in MaxTokensValues, outcome \in Outcomes :
        /\ chatbot = history
        /\ msg_box = message
        /\ status_text = <<>>
        /\ last = [op |-> "call",
                   in |-> [message |-> message, history |-> history,
                           system_prompt |-> system_prompt, temperature |-> temperature,
                           max_tokens |-> max_tokens, outcome |-> outcome],
                   out |-> NoResult]

CallChat ==
    /\ last.op = "call"
    /\ LET r == chat_with_model(last.in.message, last.in.history, last.in.system_prompt,
                                last.in.temperature, last.in.max_tokens, last.in.outcome)
       IN  /\ last' = [last EXCEPT !.op = "chat_with_model", !.out = [called |-> TRUE] @@ r]
           /\ IF r.raised
              THEN UNCHANGED <<chatbot, msg_box>>
              ELSE /\ msg_box' = r.display
                   /\ chatbot' = r.history
    /\ UNCHANGED status_text

CallNext == CallChat

CallSpec == CallInit /\ [][CallNext]_vars

(***************************************************************************)
(* Properties                                                              *)
(***************************************************************************)
Sends == {"send_btn.click", "msg_box.submit"}

\* empty, or whitespace only
Blank(s) == \A i \in 1 .. Len(s) : s[i] \in {" ", "\t", "\n"}

\* the body has the shape {choices: [{message: {content: c}}, ...]}
WellFormed(body) ==
    /\ body.valid
    /\ "choices" \in DOMAIN body.json
    /\ Len(body.json.choices) > 0
    /\ "message" \in DOMAIN body.json.choices[1]
    /\ "content" \in DOMAIN body.json.choices[1].message

\* the status codes as they read in a text
Decimal(code) ==
    CASE code = 200 -> <<"2", "0", "0">>
      [] code = 404 -> <<"4", "0", "4">>
      [] code = 500 -> <<"5", "0", "0">>

ErrorHeads ==
    {":x: **Error**: ", ":x: **Unexpected Error**: ",
     ":x: **Connection Error**: Could not connect to the model server. Make sure it's running on http://localhost:8000",
     ":x: **Timeout Error**: The model took too long to respond"}

Called == last.op = "chat_with_model"

LastTurn(conv) == conv[Len(conv)]

\* conv is old with exactly one turn added at the end
ExtendsByOne(old, conv) ==
    /\ Len(conv) = Len(old) + 1
    /\ SubSeq(conv, 1, Len(old)) = old

SentMessages == last.out.request.json.messages

SystemCount(m) == Cardinality({i \in 1 .. Len(m) : m[i].role = "system"})

\* C1: for a message that is non-empty after trimming, any history and any
\* outcome of the POST, chat_with_model returns a conversation one turn
\* longer than its input, whose earlier turns are the input in order and
\* whose last turn has the message, as given, for its first element.
C1_AppendsOneTurn ==
    (Called /\ ~Blank(last.in.message)) =>
        /\ ~last.out.raised
        /\ ExtendsByOne(last.in.history, last.out.history)
        /\ LastTurn(last.out.history)[1] = last.in.message

C1_Witness ==
    /\ Called
    /\ last.in.message = <<" ", "b", "y", "e", "\n">>
    /\ Len(last.in.history) = 2
    /\ last.in.outcome.kind = "fault"
    /\ Len(last.out.history) = 3
    /\ last.out.history[3][1] = <<" ", "b", "y", "e", "\n">>

\* C2: on the path of the Send button and of the Enter key, an empty or
\* whitespace-only message returns an empty display text and the
\* conversation unchanged, chat_with_model is not invoked and no HTTP
\* request is issued.
C2_BlankIsNoOp ==
    (last.op \in Sends /\ Blank(last.in.message)) =>
        /\ ~last.out.raised
        /\ last.out.display = <<>>
        /\ last.out.history = last.in.history
        /\ ~last.out.called
        /\ ~last.out.sent
        /\ last.out.request.json.messages = <<>>
        /\ msg_box = <<>>
        /\ chatbot = last.in.history

C2_Witness ==
    /\ last.op = "msg_box.submit"
    /\ last.in.message = <<" ", "\n">>
    /\ Len(last.in.history) = 2
    /\ chatbot = last.in.history
    /\ ~last.out.sent

\* C3: chat_with_model never raises: for every input and outcome it returns
\* a pair whose display text is empty, and every failure (a fault while the
\* messages are built, a transport fault, a non-200 status, a 200 body that
\* is not JSON or lacks choices[0].message.content) becomes an appended
\* turn carrying the message and an error text.
C3_Failed ==
    \/ last.in.system_prompt.type # "str"
    \/ last.in.outcome.kind = "fault"
    \/ last.in.outcome.status_code # 200
    \/ ~WellFormed(last.in.outcome.body)

C3_NeverRaises ==
    Called =>
        /\ ~last.out.raised
        /\ last.out.display = <<>>
        /\ C3_Failed =>
              /\ ExtendsByOne(last.in.history, last.out.history)
              /\ LastTurn(last.out.history)[1] = last.in.message
              /\ LastTurn(last.out.history)[2] # <<>>
              /\ LastTurn(last.out.history)[2][1] \in ErrorHeads

C3_Witness ==
    /\ Called
    /\ last.in.system_prompt.type = "NoneType"
    /\ ~last.out.sent
    /\ ~last.out.raised
    /\ Len(last.out.history) = Len(last.in.history) + 1
    /\ LastTurn(last.out.history)[2][1] = ":x: **Unexpected Error**: "

\* C4: over any sequence of sends and clears from the empty conversation,
\* the messages of every request sent reconstruct the conversation shown
\* at that moment: after the system message if there is one, for each turn
\* in order a user message with its user text and then an assistant
\* message with its assistant text (error texts included), and last a user
\* message with the new message; 2 * len + 1 entries without a system
\* message.
Reconstructs(m, conv, message) ==
    LET off == IF m # <<>> /\ m[1].role = "system" THEN 1 ELSE 0
    IN  /\ Len(m) = off + 2 * Len(conv) + 1
        /\ \A i \in 1 .. Len(conv) :
              /\ m[off + 2 * i - 1] = [role |-> "user", content |-> conv[i][1]]
              /\ m[off + 2 * i] = [role |-> "assistant", content |-> conv[i][2]]
        /\ m[Len(m)] = [role |-> "user", content |-> message]
        /\ SystemCount(m) = off

C4_RequestReconstructs ==
    [][(last'.op \in Sends /\ last'.out.sent) =>
          Reconstructs(last'.out.request.json.messages, chatbot, last'.in.message)]_vars

C4_Witness ==
    /\ last.op \in Sends
    /\ last.out.sent
    /\ Len(last.in.history) = 2
    /\ last.in.history[1][2][1] \in ErrorHeads
    /\ last.in.history[2][2] = Hello
    /\ Len(SentMessages) = 5
    /\ SentMessages[2].content = last.in.history[1][2]

\* C5 as claimed: a system prompt that is not the empty string gives
\* exactly one system message, the first, with the prompt for content; the
\* empty string gives none.
C5_NonEmptyPrompt ==
    (Called /\ last.out.sent) =>
        IF last.in.system_prompt.val # <<>>
        THEN /\ SystemCount(SentMessages) = 1
             /\ SentMessages[1] = [role |-> "system", content |-> last.in.system_prompt.val]
        ELSE SystemCount(SentMessages) = 0

\* C5 as amended: a system prompt that is non-empty after trimming gives
\* exactly one system message, the first, with the prompt as given for
\* content; an empty or whitespace-only prompt gives none.
C5_NonBlankPrompt ==
    (Called /\ last.out.sent) =>
        IF ~Blank(last.in.system_prompt.val)
        THEN /\ SystemCount(SentMessages) = 1
             /\ SentMessages[1] = [role |-> "system", content |-> last.in.system_prompt.val]
        ELSE SystemCount(SentMessages) = 0

C5_Witness ==
    /\ Called
    /\ last.out.sent
    /\ last.in.system_prompt.val = <<" ">>
    /\ SystemCount(SentMessages) = 0
    /\ Len(SentMessages) = 2 * Len(last.in.history) + 1

\* C6: a 200 response with a body of the expected shape makes
\* chat_with_model return ("", history + [(message, c)]), c the content of
\* the first choice.
C6_FirstChoice ==
    (Called /\ last.out.sent /\ last.in.outcome.kind = "response"
        /\ last.in.outcome.status_code = 200 /\ WellFormed(last.in.outcome.body)) =>
        /\ ~last.out.raised
        /\ last.out.display = <<>>
        /\ last.out.history =
              last.in.history \o
                  <<<<last.in.message, last.in.outcome.body.json.choices[1].message.content>>>>

C6_Witness ==
    /\ Called
    /\ last.in.message = <<"h", "i">>
    /\ last.in.history = <<>>
    /\ last.in.system_prompt = [type |-> "str", val |-> <<>>]
    /\ last.in.temperature = 7
    /\ last.in.max_tokens = 512
    /\ last.in.outcome.kind = "response"
    /\ last.in.outcome.status_code = 200
    /\ Len(last.in.outcome.body.json.choices) = 1
    /\ last.out.display = <<>>
    /\ last.out.history = << <<(<<"h", "i">>), (<<"h", "e", "l", "l", "o">>)>> >>

\* C7: a response with a status other than 200 makes chat_with_model return
\* ("", history + [(message, e)]), e a text that contains the status code
\* and the raw response body.
C7_StatusError ==
    (Called /\ last.out.sent /\ last.in.outcome.kind = "response"
        /\ last.in.outcome.status_code # 200) =>
        /\ ~last.out.raised
        /\ last.out.display = <<>>
        /\ ExtendsByOne(last.in.history, last.out.history)
        /\ LastTurn(last.out.history)[1] = last.in.message
        /\ Contains(LastTurn(last.out.history)[2], Decimal(last.in.outcome.status_code))
        /\ Contains(LastTurn(last.out.history)[2], last.in.outcome.body.text)

C7_Witness ==
    /\ Called
    /\ last.out.sent
    /\ last.in.outcome.kind = "response"
    /\ last.in.outcome.status_code = 500
    /\ Len(last.out.history) = Len(last.in.history) + 1
    /\ Contains(LastTurn(last.out.history)[2], <<"5", "0", "0">>)
    /\ Contains(LastTurn(last.out.history)[2],
                <<"s", "e", "r", "v", "e", "r", " ", "e", "r", "r", "o", "r">>)

\* C8 as claimed: an unreachable server gives the fixed connection-error
\* text, and every timeout, while connecting or while waiting for the
\* reply, gives the fixed timeout-error text; the call does not raise.
C8_TimeoutsByKind ==
    (Called /\ last.out.sent /\ last.in.outcome.kind = "fault") =>
        /\ ~last.out.raised
        /\ last.in.outcome.exc.cls = "ConnectionError" =>
              LastTurn(last.out.history)[2] = ConnectionErrorText
        /\ last.in.outcome.exc.cls \in {"ConnectTimeout", "ReadTimeout"} =>
              LastTurn(last.out.history)[2] = TimeoutErrorText

\* C8 as amended: a connection failure, a timeout while connecting
\* included, gives the fixed connection-error text, and a timeout while
\* waiting for the reply gives the fixed timeout-error text; the call does
\* not raise.
C8_ConnectTimeoutIsConnectionError ==
    (Called /\ last.out.sent /\ last.in.outcome.kind = "fault") =>
        /\ ~last.out.raised
        /\ ExtendsByOne(last.in.history, last.out.history)
        /\ last.in.outcome.exc.cls \in {"ConnectionError", "ConnectTimeout"} =>
              LastTurn(last.out.history)[2] = ConnectionErrorText
        /\ last.in.outcome.exc.cls = "ReadTimeout" =>
              LastTurn(last.out.history)[2] = TimeoutErrorText

C8_Witness ==
    /\ Called
    /\ last.out.sent
    /\ last.in.outcome.kind = "fault"
    /\ last.in.outcome.exc.cls = "ConnectTimeout"
    /\ ~last.out.raised
    /\ LastTurn(last.out.history)[2][1] =
          ":x: **Connection Error**: Could not connect to the model server. Make sure it's running on http://localhost:8000"

\* C9 as claimed: check_server_status never raises; 200 gives the online
\* text, another status a text with the code, and an endpoint that does not
\* respond, unreachable or silent for the 5 seconds, the offline text.
StatusChecked == last.op \in {"init", "refresh_btn.click"}

C9_SilentIsOffline ==
    StatusChecked =>
        /\ ~last.out.raised
        /\ (last.in.outcome.kind = "response" /\ last.in.outcome.status_code = 200) =>
              status_text = OnlineText
        /\ (last.in.outcome.kind = "response" /\ last.in.outcome.status_code # 200) =>
              /\ Contains(status_text, Decimal(last.in.outcome.status_code))
              /\ status_text[1] = ":warning: **Server Status**: Server responded with status "
        /\ (last.in.outcome.kind = "fault"
               /\ last.in.outcome.exc.cls \in {"ConnectionError", "ConnectTimeout", "ReadTimeout"}) =>
              status_text = OfflineText

\* C9 as amended: check_server_status never raises; 200 gives the online
\* text, another status a text with the code, a connection failure (a
\* timeout while connecting included) the offline text, and a timeout
\* while waiting for the reply the unknown-error text with the fault's
\* description.
C9_ReadTimeoutIsUnknown ==
    StatusChecked =>
        /\ ~last.out.raised
        /\ (last.in.outcome.kind = "response" /\ last.in.outcome.status_code = 200) =>
              status_text = OnlineText
        /\ (last.in.outcome.kind = "response" /\ last.in.outcome.status_code # 200) =>
              /\ Contains(status_text, Decimal(last.in.outcome.status_code))
              /\ status_text[1] = ":warning: **Server Status**: Server responded with status "
        /\ (last.in.outcome.kind = "fault"
               /\ last.in.outcome.exc.cls \in {"ConnectionError", "ConnectTimeout"}) =>
              status_text = OfflineText
        /\ (last.in.outcome.kind = "fault" /\ last.in.outcome.exc.cls = "ReadTimeout") =>
              /\ status_text[1] = ":warning: **Server Status**: Unknown error - "
              /\ Contains(status_text, last.in.outcome.exc.desc)

C9_Witness ==
    /\ last.op = "refresh_btn.click"
    /\ last.in.outcome.kind = "fault"
    /\ last.in.outcome.exc.cls = "ReadTimeout"
    /\ status_text = <<":warning: **Server Status**: Unknown error - ", "Read timed out">>

\* C10: every step leaves the conversation unchanged (a blank message, a
\* status refresh), or adds exactly one turn at its end with the earlier
\* turns as they were (any other send), or empties it (clear); and the
\* conversation value handed to the handler keeps its contents.
C10_StepShapes ==
    [][/\ (last'.op \in Sends /\ Blank(last'.in.message)) => chatbot' = chatbot
       /\ (last'.op \in Sends /\ ~Blank(last'.in.message)) => ExtendsByOne(chatbot, chatbot')
       /\ last'.op = "clear_btn.click" => chatbot' = <<>>
       /\ last'.op = "refresh_btn.click" => chatbot' = chatbot
       /\ last'.op \in Sends \cup {"clear_btn.click"} => last'.out.held = chatbot]_vars

C10_Witness ==
    /\ last.op \in Sends
    /\ ~Blank(last.in.message)
    /\ last.in.outcome.kind = "fault"
    /\ Len(last.in.history) = 2
    /\ Len(chatbot) = 3
    /\ SubSeq(chatbot, 1, 2) = last.in.history
    /\ last.out.held = last.in.history

====
